---- MODULE Spec2Model ----
(***************************************************************************)
(* Model of the order-stream pipeline: the paced producer loop             *)
(* (src/producer.py, src/producer_invalid.py) and the manual-commit        *)
(* consumer loop (src/tracker.py), each followed on its own, and the       *)
(* factory of invalid events (create_invalid_order) applied to sample      *)
(* orders.                                                                 *)
(*                                                                         *)
(* Time is counted in ticks of 0.1 s (the timeout of the backpressure      *)
(* poll); every time.time() read returns the current value of `now`.       *)
(***************************************************************************)
EXTENDS FiniteSets, Integers, Sequences, TLC

\* ------------------------------------------------------------------ bounds
MaxTime == 12            \* the clock stops advancing here
MaxRecords == 8          \* records the broker hands to the consumer
MaxBad == 1              \* of which undecodable
MaxOdd == 1              \* leading records that may be of an unusual JSON type
MaxPollErrors == 1       \* poll results that carry a broker error
MaxCommitEvery == 3      \* largest --commit-every tried
MaxCreated == 3          \* events the factory creates in one producer run
MaxEvents == 2           \* largest --max-events tried
BufferCapacity == 1      \* messages the client's local queue holds
MaxDelay == 1            \* ticks of work time in one producer run
MaxPacedEvents == 10     \* largest --max-events of the paced runs
MaxStall == 3            \* longest suspension of the producer, in ticks
MaxReported == 2         \* records of the consumer run followed for longer

\* ------------------------------------------------------- program constants
PollBackoff == 1                         \* producer.poll(0.1): one tick
TicksPerSecond == 10 * PollBackoff
MsPerTick == 1000 \div TicksPerSecond
ConsumerPollTimeout == TicksPerSecond    \* consumer.poll(1.0)
FlushTimeout == 10 * TicksPerSecond      \* producer.flush(10)

VARIABLES
    now,                \* wall clock, in ticks
    \* ---- consumer (tracker.py)
    c_args,             \* parsed command line
    c_pc,               \* position of main()
    msg,                \* result of the last consumer.poll
    order,              \* the decoded record
    processed, errors, latency_total_ms,      \* Metrics
    started, c_last_report,
    position,           \* offset of the last record returned by poll
    committed,          \* offset covered by the last successful commit
    counted,            \* offsets counted in processed
    rejected,           \* offsets counted in errors (undecodable)
    poll_errors,        \* broker errors returned by poll so far
    periodic_commits,   \* consumer.commit calls of line 76
    final_commits,      \* consumer.commit calls of line 96
    final_commit_error, \* what the call of line 96 raised, if anything
    c_reports,          \* metrics snapshots printed
    closed, c_summary,  \* consumer.close() called, summary printed
    raised,             \* exception propagating out of the try block
    sigint, sigterm,    \* signals delivered to the consumer so far
    \* ---- producer (producer.py, producer_invalid.py)
    args,               \* parsed command line
    p_pc,               \* position of main()
    outcome,            \* "running", "ok" or "config_error"
    client,             \* the Producer exists
    handlers,           \* the signal handlers are installed
    calls,              \* methods of the client called so far
    should_stop,
    metrics,            \* sent_ok, sent_error, ack_latency_total_ms
    start, last_report, next_send_time, produced,
    p_order, payload, produce_start,
    sleep_for,
    created,            \* events the factory has returned
    accepted,           \* order_ids the client has accepted
    queue,              \* the client's local queue
    capacity,           \* messages the local queue holds
    supply,             \* events the run is followed for
    delay,              \* ticks of work time spent so far
    exit_reason,        \* why the while loop ended
    loop_exit_time,     \* the clock when it ended
    reports,            \* metrics snapshots printed
    flushed, summary,
    \* ---- what a run is followed for
    backlog,            \* records the subscription holds for the consumer
    c_horizon,          \* the tick the consumer's clock is followed to
    horizon,            \* 0, or the tick past which time is not told apart
    \* ---- the event factory of producer_invalid.py, called on its own
    f_pc,               \* "idle" or "returned"
    f_mode,             \* the --invalid-mode argument
    f_order,            \* what create_order() returns
    f_choice,           \* what random.choice has returned
    f_result            \* what create_invalid_order returns

cvars == <<c_args, c_pc, msg, order, processed, errors, latency_total_ms,
           started, c_last_report, position, committed, counted, rejected,
           poll_errors, periodic_commits, final_commits, c_reports, closed,
           c_summary, raised, sigint, sigterm, final_commit_error>>

pvars == <<args, p_pc, outcome, client, handlers, calls, should_stop, metrics,
           start, last_report, next_send_time, produced, p_order, payload,
           produce_start, sleep_for, created, accepted, queue, capacity,
           supply, delay, exit_reason, loop_exit_time, reports, flushed,
           summary>>

evars == <<backlog, c_horizon, horizon>>

fvars == <<f_pc, f_mode, f_order, f_choice, f_result>>

vars == <<now, cvars, pvars, evars, fvars>>

None == [type |-> "none"]

\* the clock d ticks later; past the horizon, when there is one, the
\* program reads the same time again
Later(d) ==
    IF horizon = 0 \/ now + d <= horizon THEN now + d
    ELSE IF now < horizon THEN horizon
    ELSE now

\* =================================================================
\* Consumer: tracker.py main()
\* =================================================================
ConsumerArgs ==
    [commit_every : 0..MaxCommitEvery, report_every_seconds : {0, 1}]

\* The records a poll can return: a JSON object with an integer
\* event_time_ms, without the field, with a string or with the JSON boolean
\* true in it; JSON that is not an object (a list, a number); or bytes that
\* do not decode.
OddKinds == {"bool_ts", "not_object"}

RecordKinds == {"int_ts", "no_ts", "str_ts", "undecodable"} \cup OddKinds

\* what order.get("event_time_ms") finds at time t: an integer of the
\* producer's clock, True (which Python counts as the integer 1), or
\* nothing to subtract
Stamps(k, t) ==
    IF k = "int_ts" THEN {0, t * MsPerTick}
    ELSE IF k = "bool_ts" THEN {1}
    ELSE {0}

InLoop == c_pc \in {"poll", "dispatch", "decode", "count", "commit", "report"}

\* lines 28-43: the state main() enters the loop with
ConsumerFields ==
    /\ msg = None
    /\ order = None
    /\ processed = 0 /\ errors = 0 /\ latency_total_ms = 0
    /\ started = 0 /\ c_last_report = 0
    /\ position = 0 /\ committed = 0
    /\ counted = {} /\ rejected = {}
    /\ poll_errors = 0
    /\ periodic_commits = 0 /\ final_commits = 0
    /\ final_commit_error = "none"
    /\ c_reports = 0
    /\ closed = FALSE /\ c_summary = FALSE
    /\ raised = "none"
    /\ sigint = FALSE /\ sigterm = FALSE

InitConsumer == c_pc = "poll" /\ ConsumerFields

\* line 47, no record within the timeout
PollNone ==
    /\ c_pc = "poll"
    /\ now + ConsumerPollTimeout <= c_horizon
    /\ now' = now + ConsumerPollTimeout
    /\ msg' = None
    /\ c_pc' = "dispatch"
    /\ UNCHANGED <<c_args, order, processed, errors, latency_total_ms,
                   started, c_last_report, position, committed, counted,
                   rejected, poll_errors, periodic_commits, final_commits,
                   c_reports, closed, c_summary, raised, sigint, sigterm>>
    /\ UNCHANGED <<final_commit_error, pvars, evars, fvars>>

\* line 47, the poll returns a broker error object
PollError ==
    /\ c_pc = "poll"
    /\ poll_errors < MaxPollErrors
    /\ poll_errors' = poll_errors + 1
    /\ msg' = [type |-> "error"]
    /\ c_pc' = "dispatch"
    /\ UNCHANGED <<now, c_args, order, processed, errors, latency_total_ms,
                   started, c_last_report, position, committed, counted,
                   rejected, periodic_commits, final_commits, c_reports,
                   closed, c_summary, raised, sigint, sigterm>>
    /\ UNCHANGED <<final_commit_error, pvars, evars, fvars>>

\* line 47, the poll returns the next record of the subscription; the
\* consumer's position now covers it
PollRecord ==
    /\ c_pc = "poll"
    /\ position < backlog
    /\ \E k \in RecordKinds : \E t \in Stamps(k, now) :
         /\ k = "undecodable" => Cardinality(rejected) < MaxBad
         /\ k \in OddKinds => position < MaxOdd
         /\ msg' = [type |-> "record", kind |-> k, offset |-> position + 1,
                    event_time_ms |-> t]
    /\ position' = position + 1
    /\ c_pc' = "dispatch"
    /\ UNCHANGED <<now, c_args, order, processed, errors, latency_total_ms,
                   started, c_last_report, committed, counted, rejected,
                   poll_errors, periodic_commits, final_commits, c_reports,
                   closed, c_summary, raised, sigint, sigterm>>
    /\ UNCHANGED <<final_commit_error, pvars, evars, fvars>>

\* lines 48-53
Dispatch ==
    /\ c_pc = "dispatch"
    /\ IF msg.type = "none"
         THEN /\ c_pc' = "poll"
              /\ UNCHANGED errors
         ELSE IF msg.type = "error"
                THEN /\ errors' = errors + 1
                     /\ c_pc' = "poll"
                ELSE /\ c_pc' = "decode"
                     /\ UNCHANGED errors
    /\ UNCHANGED <<now, c_args, msg, order, processed, latency_total_ms,
                   started, c_last_report, position, committed, counted,
                   rejected, poll_errors, periodic_commits, final_commits,
                   c_reports, closed, c_summary, raised, sigint, sigterm>>
    /\ UNCHANGED <<final_commit_error, pvars, evars, fvars>>

\* a decode that takes any bytes for a record
UndecodableNever(m) == FALSE

\* lines 55-58: decode("utf-8") or json.loads raises
Undecodable(m) == m.kind = "undecodable"

\* lines 55-61
Decode ==
    /\ c_pc = "decode"
    /\ IF Undecodable(msg)
         THEN /\ errors' = errors + 1
              /\ rejected' = rejected \cup {msg.offset}
              /\ c_pc' = "poll"
              /\ UNCHANGED order
         ELSE /\ order' = msg
              /\ c_pc' = "count"
              /\ UNCHANGED <<errors, rejected>>
    /\ UNCHANGED <<now, c_args, msg, processed, latency_total_ms, started,
                   c_last_report, position, committed, counted, poll_errors,
                   periodic_commits, final_commits, c_reports, closed,
                   c_summary, raised, sigint, sigterm>>
    /\ UNCHANGED <<final_commit_error, pvars, evars, fvars>>

\* line 65, isinstance(event_time_ms, int): bool is a subclass of int
IsInstanceInt(o) == o.kind \in {"int_ts", "bool_ts"}

\* lines 63-73; order.get of line 64 raises AttributeError when the JSON
\* value is not an object, and nothing in the loop catches it
Count ==
    /\ c_pc = "count"
    /\ processed' = processed + 1
    /\ counted' = counted \cup {order.offset}
    /\ IF order.kind = "not_object"
         THEN /\ raised' = "AttributeError"
              /\ c_pc' = "finally"
              /\ UNCHANGED latency_total_ms
         ELSE /\ latency_total_ms' =
                   IF IsInstanceInt(order)
                     THEN latency_total_ms
                            + (now * MsPerTick - order.event_time_ms)
                     ELSE latency_total_ms
              /\ c_pc' = "commit"
              /\ UNCHANGED raised
    /\ UNCHANGED <<now, c_args, msg, order, errors, started, c_last_report,
                   position, committed, rejected, poll_errors,
                   periodic_commits, final_commits, c_reports, closed,
                   c_summary, sigint, sigterm>>
    /\ UNCHANGED <<final_commit_error, pvars, evars, fvars>>

\* the condition with the remainder off by one
CommitDueOffByOne ==
    /\ c_args.commit_every > 0
    /\ processed % c_args.commit_every = 1 % c_args.commit_every

\* line 75
CommitDue == c_args.commit_every > 0 /\ processed % c_args.commit_every = 0

\* lines 75-76; a synchronous commit either covers every record the poll
\* has returned or raises
PeriodicCommit ==
    /\ c_pc = "commit"
    /\ IF CommitDue
         THEN /\ periodic_commits' = periodic_commits + 1
              /\ \/ /\ committed' = position
                    /\ c_pc' = "report"
                    /\ UNCHANGED raised
                 \/ /\ raised' = "KafkaException"
                    /\ c_pc' = "finally"
                    /\ UNCHANGED committed
         ELSE /\ c_pc' = "report"
              /\ UNCHANGED <<periodic_commits, committed, raised>>
    /\ UNCHANGED <<now, c_args, msg, order, processed, errors,
                   latency_total_ms, started, c_last_report, position,
                   counted, rejected, poll_errors, final_commits, c_reports,
                   closed, c_summary, sigint, sigterm>>
    /\ UNCHANGED <<final_commit_error, pvars, evars, fvars>>

\* lines 78-91
ConsumerReport ==
    /\ c_pc = "report"
    /\ IF now - c_last_report >= c_args.report_every_seconds * TicksPerSecond
         THEN /\ c_reports' = c_reports + 1
              /\ c_last_report' = now
         ELSE UNCHANGED <<c_reports, c_last_report>>
    /\ c_pc' = "poll"
    /\ UNCHANGED <<now, c_args, msg, order, processed, errors,
                   latency_total_ms, started, position, committed, counted,
                   rejected, poll_errors, periodic_commits, final_commits,
                   closed, c_summary, raised, sigint, sigterm>>
    /\ UNCHANGED <<final_commit_error, pvars, evars, fvars>>

\* SIGINT: no handler is installed, so Python raises KeyboardInterrupt in
\* the main thread wherever it is.  Inside the try block line 92 catches it;
\* inside the finally block nothing does.
Interrupt ==
    /\ ~sigint
    /\ c_pc \notin {"done", "crashed", "killed", "off"}
    /\ sigint' = TRUE
    /\ IF InLoop
         THEN /\ c_pc' = "finally"
              /\ UNCHANGED raised
         ELSE /\ c_pc' = "crashed"
              /\ raised' = "KeyboardInterrupt"
    /\ UNCHANGED <<now, c_args, msg, order, processed, errors,
                   latency_total_ms, started, c_last_report, position,
                   committed, counted, rejected, poll_errors,
                   periodic_commits, final_commits, c_reports, closed,
                   c_summary, sigterm>>
    /\ UNCHANGED <<final_commit_error, pvars, evars, fvars>>

\* SIGTERM: no handler is installed, the default disposition ends the
\* process at once.
Terminate ==
    /\ ~sigterm
    /\ c_pc \notin {"done", "crashed", "killed", "off"}
    /\ sigterm' = TRUE
    /\ c_pc' = "killed"
    /\ UNCHANGED <<now, c_args, msg, order, processed, errors,
                   latency_total_ms, started, c_last_report, position,
                   committed, counted, rejected, poll_errors,
                   periodic_commits, final_commits, c_reports, closed,
                   c_summary, raised, sigint>>
    /\ UNCHANGED <<final_commit_error, pvars, evars, fvars>>

\* a finally block without the try: the exception of the commit leaves
\* main at once
CommitFailurePropagates == "crashed"

\* lines 97-98, except Exception: pass; the block goes on with line 99
CommitFailureSwallowed == "close"

\* lines 94-98: the final commit; it covers every record the poll has
\* returned, or raises KafkaException, which the except clause swallows
FinalCommit ==
    /\ c_pc = "finally"
    /\ final_commits' = final_commits + 1
    /\ \/ /\ committed' = position
          /\ c_pc' = "close"
          /\ UNCHANGED final_commit_error
       \/ /\ final_commit_error' = "KafkaException"
          /\ c_pc' = CommitFailureSwallowed
          /\ UNCHANGED committed
    /\ UNCHANGED <<now, c_args, msg, order, processed, errors,
                   latency_total_ms, started, c_last_report, position,
                   counted, rejected, poll_errors, periodic_commits,
                   c_reports, closed, c_summary, raised, sigint, sigterm>>
    /\ UNCHANGED <<pvars, evars, fvars>>

\* line 99
Close ==
    /\ c_pc = "close"
    /\ closed' = TRUE
    /\ c_pc' = "summary"
    /\ UNCHANGED <<now, c_args, msg, order, processed, errors,
                   latency_total_ms, started, c_last_report, position,
                   committed, counted, rejected, poll_errors,
                   periodic_commits, final_commits, c_reports, c_summary,
                   raised, sigint, sigterm>>
    /\ UNCHANGED <<final_commit_error, pvars, evars, fvars>>

\* lines 101-111; an exception that entered the finally block propagates
\* once the block is done
ConsumerSummary ==
    /\ c_pc = "summary"
    /\ c_summary' = TRUE
    /\ c_pc' = IF raised = "none" THEN "done" ELSE "crashed"
    /\ UNCHANGED <<now, c_args, msg, order, processed, errors,
                   latency_total_ms, started, c_last_report, position,
                   committed, counted, rejected, poll_errors,
                   periodic_commits, final_commits, c_reports, closed,
                   raised, sigint, sigterm>>
    /\ UNCHANGED <<final_commit_error, pvars, evars, fvars>>

\* =================================================================
\* Producer: main() of producer.py; main() of producer_invalid.py is the
\* same loop around create_invalid_order
\* =================================================================
Rates == {-1, 0, 1, 10}

ProducerArgs ==
    [program : {"producer", "producer_invalid"},
     events_per_second : Rates,
     max_events : 0..MaxEvents,
     duration_seconds : {0, 1},
     report_every_seconds : {0, 1}]

ZeroMetrics == [sent_ok |-> 0, sent_error |-> 0, ack_latency_total_ms |-> 0]

ProducerFields ==
    /\ outcome = "running"
    /\ client = FALSE /\ handlers = FALSE
    /\ calls = {}
    /\ should_stop = FALSE
    /\ metrics = ZeroMetrics
    /\ start = 0 /\ last_report = 0 /\ next_send_time = 0 /\ produced = 0
    /\ p_order = None /\ payload = <<>> /\ produce_start = 0
    /\ sleep_for = 0
    /\ created = 0 /\ accepted = {} /\ queue = {}
    /\ delay = 0
    /\ exit_reason = "none" /\ loop_exit_time = 0
    /\ reports = 0
    /\ flushed = FALSE /\ summary = FALSE

InitProducer == p_pc = "start" /\ ProducerFields

\* the rate taken for the interval, the reciprocal forgotten
IntervalNotInverted == args.events_per_second * TicksPerSecond

\* 1.0 / args.events_per_second, in ticks (the rates tried divide a second)
Interval == TicksPerSecond \div args.events_per_second

\* json.dumps(order).encode("utf-8"): the fields in the order of the dict
Encode(o) == <<o.order_id, o.event_time_ms, o.invalid_mode>>

\* the validation comparing with < instead of <=
RateRejectedStrict == args.events_per_second < 0

\* line 115
RateRejected == args.events_per_second <= 0

\* lines 113-141
Startup ==
    /\ p_pc = "start"
    /\ IF RateRejected
         THEN /\ outcome' = "config_error"
              /\ p_pc' = "exit"
              /\ UNCHANGED <<client, handlers, start, last_report,
                             next_send_time>>
         ELSE /\ client' = TRUE
              /\ handlers' = TRUE
              /\ start' = now
              /\ last_report' = now
              /\ next_send_time' = now
              /\ p_pc' = "loop"
              /\ UNCHANGED outcome
    /\ UNCHANGED <<now, args, capacity, supply, calls, should_stop, metrics,
                   produced, p_order, payload, produce_start, sleep_for,
                   created, accepted, queue, delay, exit_reason,
                   loop_exit_time, reports, flushed, summary>>
    /\ UNCHANGED <<cvars, evars, fvars>>

\* lines 122-124, run by SIGINT and by SIGTERM
StopSignal ==
    /\ handlers
    /\ p_pc # "done"
    /\ ~should_stop
    /\ \E signum \in {"SIGINT", "SIGTERM"} : should_stop' = TRUE
    /\ UNCHANGED <<now, args, capacity, supply, p_pc, outcome, client,
                   handlers, calls, metrics, start, last_report,
                   next_send_time, produced, p_order, payload, produce_start,
                   sleep_for, created, accepted, queue, delay, exit_reason,
                   loop_exit_time, reports, flushed, summary>>
    /\ UNCHANGED <<cvars, evars, fvars>>

\* the callback without its return: a failure falls through to the success
\* branch
DeliveryReportFallThrough(m, err, started_at, t) ==
    LET f == IF err # "none" THEN [m EXCEPT !.sent_error = @ + 1] ELSE m
    IN  [f EXCEPT !.sent_ok = @ + 1,
                  !.ack_latency_total_ms = @ + (t - started_at) * MsPerTick]

\* lines 126-133
DeliveryReport(m, err, started_at, t) ==
    IF err # "none"
      THEN [m EXCEPT !.sent_error = @ + 1]
      ELSE [m EXCEPT !.sent_ok = @ + 1,
                     !.ack_latency_total_ms = @ + (t - started_at) * MsPerTick]

\* the delivery reports the client has ready for the next poll
Ready(q) == {r \in q : r.status # "inflight"}

\* a client that keeps the reports it has handed to the callback
RemainingKept(q) == q

\* what the local queue holds once a poll or flush has run the callbacks
Remaining(q) == q \ Ready(q)

\* the callbacks one poll or flush runs at time t
RECURSIVE ServeCallbacks(_, _, _)
ServeCallbacks(m, ready, t) ==
    IF ready = {}
      THEN m
      ELSE LET r == CHOOSE x \in ready : TRUE
           IN  ServeCallbacks(
                   DeliveryReport(m, IF r.status = "failed" THEN "error"
                                                            ELSE "none",
                                  r.started_at, t),
                   ready \ {r}, t)

\* a loop that never looks at the flag
StopIgnored == FALSE

\* line 143
StopObserved == should_stop

\* the limit in seconds compared with a time in milliseconds
DurationReachedInMs ==
    /\ args.duration_seconds > 0
    /\ (now - start) * MsPerTick >= args.duration_seconds * 1000 * MsPerTick

\* line 145
DurationReached ==
    /\ args.duration_seconds > 0
    /\ now - start >= args.duration_seconds * TicksPerSecond

\* the limit compared with > instead of >=
MaxEventsExceeded == args.max_events > 0 /\ produced > args.max_events

\* line 147
MaxEventsReached == args.max_events > 0 /\ produced >= args.max_events

\* the while condition and the two breaks, lines 143-148
LoopCheck ==
    /\ p_pc = "loop"
    /\ IF StopObserved
         THEN /\ p_pc' = "flush"
              /\ exit_reason' = "stop"
              /\ loop_exit_time' = now
         ELSE IF DurationReached
                THEN /\ p_pc' = "flush"
                     /\ exit_reason' = "duration"
                     /\ loop_exit_time' = now
                ELSE IF MaxEventsReached
                       THEN /\ p_pc' = "flush"
                            /\ exit_reason' = "max_events"
                            /\ loop_exit_time' = now
                       ELSE /\ created < supply \/ horizon > 0
                            /\ p_pc' = "create"
                            /\ UNCHANGED <<exit_reason, loop_exit_time>>
    /\ UNCHANGED <<now, args, capacity, supply, outcome, client, handlers,
                   calls, should_stop, metrics, start, last_report,
                   next_send_time, produced, p_order, payload, produce_start,
                   sleep_for, created, accepted, queue, delay, reports,
                   flushed, summary>>
    /\ UNCHANGED <<cvars, evars, fvars>>

\* the number of the next event; with a horizon the events past the supply
\* are not told apart
NextId == IF created < supply THEN created + 1 ELSE created

\* lines 150-152: a fresh event from the factory, encoded
CreateEvent ==
    /\ p_pc = "create"
    /\ created' = NextId
    /\ p_order' = [type |-> "order", order_id |-> NextId,
                   event_time_ms |-> now * MsPerTick,
                   invalid_mode |-> IF args.program = "producer_invalid"
                                      THEN "invalid" ELSE "absent"]
    /\ payload' = Encode(p_order')
    /\ produce_start' = now
    /\ p_pc' = "produce"
    /\ UNCHANGED <<now, args, capacity, supply, outcome, client, handlers,
                   calls, should_stop, metrics, start, last_report,
                   next_send_time, produced, sleep_for, accepted, queue,
                   delay, exit_reason, loop_exit_time, reports, flushed,
                   summary>>
    /\ UNCHANGED <<cvars, evars, fvars>>

\* lines 153-162: the client takes the record into its local queue
ProduceAccepted ==
    /\ p_pc = "produce"
    /\ Cardinality(queue) < capacity
    /\ calls' = calls \cup {"produce"}
    /\ queue' = queue \cup {[key |-> p_order.order_id, value |-> payload,
                             started_at |-> produce_start,
                             status |-> "inflight"]}
    /\ accepted' = accepted \cup {p_order.order_id}
    /\ produced' = produced + 1
    /\ p_pc' = "poll"
    /\ UNCHANGED <<now, args, capacity, supply, outcome, client, handlers,
                   should_stop, metrics, start, last_report, next_send_time,
                   p_order, payload, produce_start, sleep_for, created,
                   delay, exit_reason, loop_exit_time, reports, flushed,
                   summary>>
    /\ UNCHANGED <<cvars, evars, fvars>>

\* lines 153-165: the local queue is full, produce raises BufferError; the
\* poll of 0.1 s runs the callbacks that are ready, or times out
ProduceBufferFull ==
    /\ p_pc = "produce"
    /\ Cardinality(queue) >= capacity
    /\ calls' = calls \cup {"produce", "poll"}
    /\ IF Ready(queue) # {}
         THEN /\ metrics' = ServeCallbacks(metrics, Ready(queue), now)
              /\ queue' = Remaining(queue)
              /\ UNCHANGED now
         ELSE /\ now' = Later(PollBackoff)
              /\ UNCHANGED <<metrics, queue>>
    /\ p_pc' = "loop"
    /\ UNCHANGED <<args, capacity, supply, outcome, client, handlers,
                   should_stop, start, last_report, next_send_time, produced,
                   p_order, payload, produce_start, sleep_for, created,
                   accepted, delay, exit_reason, loop_exit_time, reports,
                   flushed, summary>>
    /\ UNCHANGED <<cvars, evars, fvars>>

\* line 167
PollCallbacks ==
    /\ p_pc = "poll"
    /\ calls' = calls \cup {"poll"}
    /\ metrics' = ServeCallbacks(metrics, Ready(queue), now)
    /\ queue' = Remaining(queue)
    /\ p_pc' = "pace"
    /\ UNCHANGED <<now, args, capacity, supply, outcome, client, handlers,
                   should_stop, start, last_report, next_send_time, produced,
                   p_order, payload, produce_start, sleep_for, created,
                   accepted, delay, exit_reason, loop_exit_time, reports,
                   flushed, summary>>
    /\ UNCHANGED <<cvars, evars, fvars>>

\* the deadline counted from the clock instead of from the last deadline
NextDeadlineFromNow == now + Interval

\* line 168
NextDeadline == next_send_time + Interval

\* lines 168-170
Pace ==
    /\ p_pc = "pace"
    /\ next_send_time' = NextDeadline
    /\ sleep_for' = next_send_time' - now
    /\ p_pc' = IF sleep_for' > 0 THEN "sleep" ELSE "reset"
    /\ UNCHANGED <<now, args, capacity, supply, outcome, client, handlers,
                   calls, should_stop, metrics, start, last_report, produced,
                   p_order, payload, produce_start, created, accepted, queue,
                   delay, exit_reason, loop_exit_time, reports, flushed,
                   summary>>
    /\ UNCHANGED <<cvars, evars, fvars>>

\* line 171
Sleep ==
    /\ p_pc = "sleep"
    /\ now' = Later(sleep_for)
    /\ p_pc' = "report"
    /\ UNCHANGED <<args, capacity, supply, outcome, client, handlers, calls,
                   should_stop, metrics, start, last_report, next_send_time,
                   produced, p_order, payload, produce_start, sleep_for,
                   created, accepted, queue, delay, exit_reason,
                   loop_exit_time, reports, flushed, summary>>
    /\ UNCHANGED <<cvars, evars, fvars>>

\* a lagging deadline left as it is, to be caught up with
ResetSkipped == next_send_time

\* line 173: time.time(), read again
ResetTo == now

\* line 173
ResetDeadline ==
    /\ p_pc = "reset"
    /\ next_send_time' = ResetTo
    /\ p_pc' = "report"
    /\ UNCHANGED <<now, args, capacity, supply, outcome, client, handlers,
                   calls, should_stop, metrics, start, last_report, produced,
                   p_order, payload, produce_start, sleep_for, created,
                   accepted, queue, delay, exit_reason, loop_exit_time,
                   reports, flushed, summary>>
    /\ UNCHANGED <<cvars, evars, fvars>>

\* a report printed in every iteration
ReportDueAlways == TRUE

\* line 175
ReportDue == now - last_report >= args.report_every_seconds * TicksPerSecond

\* line 175
ReportCheck ==
    /\ p_pc = "report"
    /\ p_pc' = IF ReportDue THEN "emit" ELSE "loop"
    /\ UNCHANGED <<now, args, capacity, supply, outcome, client, handlers,
                   calls, should_stop, metrics, start, last_report,
                   next_send_time, produced, p_order, payload, produce_start,
                   sleep_for, created, accepted, queue, delay, exit_reason,
                   loop_exit_time, reports, flushed, summary>>
    /\ UNCHANGED <<cvars, evars, fvars>>

\* lines 176-186
ReportEmit ==
    /\ p_pc = "emit"
    /\ reports' = reports + 1
    /\ last_report' = now
    /\ p_pc' = "loop"
    /\ UNCHANGED <<now, args, capacity, supply, outcome, client, handlers,
                   calls, should_stop, metrics, start, next_send_time,
                   produced, p_order, payload, produce_start, sleep_for,
                   created, accepted, queue, delay, exit_reason,
                   loop_exit_time, flushed, summary>>
    /\ UNCHANGED <<cvars, evars, fvars>>

\* line 188: runs the callbacks that are ready and returns when the queue
\* is empty or after 10 s
Flush ==
    /\ p_pc = "flush"
    /\ calls' = calls \cup {"flush"}
    /\ metrics' = ServeCallbacks(metrics, Ready(queue), now)
    /\ queue' = Remaining(queue)
    /\ now' = IF queue' = {} THEN now ELSE Later(FlushTimeout)
    /\ flushed' = TRUE
    /\ p_pc' = "summary"
    /\ UNCHANGED <<args, capacity, supply, outcome, client, handlers,
                   should_stop, start, last_report, next_send_time, produced,
                   p_order, payload, produce_start, sleep_for, created,
                   accepted, delay, exit_reason, loop_exit_time, reports,
                   summary>>
    /\ UNCHANGED <<cvars, evars, fvars>>

\* lines 189-197
Summary ==
    /\ p_pc = "summary"
    /\ summary' = TRUE
    /\ outcome' = "ok"
    /\ p_pc' = "done"
    /\ UNCHANGED <<now, args, capacity, supply, client, handlers, calls,
                   should_stop, metrics, start, last_report, next_send_time,
                   produced, p_order, payload, produce_start, sleep_for,
                   created, accepted, queue, delay, exit_reason,
                   loop_exit_time, reports, flushed>>
    /\ UNCHANGED <<cvars, evars, fvars>>

Running == p_pc \notin {"start", "exit", "done", "off"}

\* the broker client's own thread settles a queued message: acknowledged,
\* or failed for good
Deliver ==
    /\ Running
    /\ \E r \in queue, s \in {"acked", "failed"} :
         /\ r.status = "inflight"
         /\ queue' = (queue \ {r}) \cup {[r EXCEPT !.status = s]}
    /\ UNCHANGED <<now, args, capacity, supply, p_pc, outcome, client,
                   handlers, calls, should_stop, metrics, start, last_report,
                   next_send_time, produced, p_order, payload, produce_start,
                   sleep_for, created, accepted, delay, exit_reason,
                   loop_exit_time, reports, flushed, summary>>
    /\ UNCHANGED <<cvars, evars, fvars>>

\* a broker that acknowledges every message, the oldest first
DeliverNext ==
    /\ Running
    /\ \E r \in queue :
         /\ r.status = "inflight"
         /\ \A q \in queue : q.status = "inflight" => r.key <= q.key
         /\ queue' = (queue \ {r}) \cup {[r EXCEPT !.status = "acked"]}
    /\ UNCHANGED <<now, args, capacity, supply, p_pc, outcome, client,
                   handlers, calls, should_stop, metrics, start, last_report,
                   next_send_time, produced, p_order, payload, produce_start,
                   sleep_for, created, accepted, delay, exit_reason,
                   loop_exit_time, reports, flushed, summary>>
    /\ UNCHANGED <<cvars, evars, fvars>>

\* the work of an iteration takes time
Tick ==
    /\ Running
    /\ delay < MaxDelay
    /\ delay' = delay + 1
    /\ now' = Later(1)
    /\ UNCHANGED <<args, capacity, supply, p_pc, outcome, client, handlers,
                   calls, should_stop, metrics, start, last_report,
                   next_send_time, produced, p_order, payload, produce_start,
                   sleep_for, created, accepted, queue, exit_reason,
                   loop_exit_time, reports, flushed, summary>>
    /\ UNCHANGED <<cvars, evars, fvars>>

\* =================================================================
\* The factory of invalid events: create_invalid_order of
\* producer_invalid.py.  An order is a function from field names to values;
\* prices are in hundredths.
\* =================================================================
INVALID_MODES ==
    {"missing_unit_price", "missing_quantity", "missing_both",
     "non_positive_unit_price", "non_positive_quantity"}

\* --invalid-mode
ModeChoices == {"random"} \cup INVALID_MODES

\* create_order() of producer.py with its random draws made: the fields
\* the pipeline reads, one item of the catalogue at the ends of its price
\* range
CreateOrder(id, quantity, unit_price, discount_pct) ==
    [order_id |-> id,
     item |-> "potatoes",
     quantity |-> quantity,
     unit_price |-> unit_price,
     discount_pct |-> discount_pct,
     total_amount |-> (quantity * unit_price * (100 - discount_pct)) \div 100,
     event_time_ms |-> 0]

ValidOrders ==
    {CreateOrder("id", q, p, d) : q \in {1, 2, 20}, p \in {179, 252},
                                 d \in {0, 15}}

\* order.pop(k, None)
Pop(o, k) == [f \in DOMAIN o \ {k} |-> o[f]]

\* order[k] = v
Put(o, k, v) == [f \in DOMAIN o \cup {k} |-> IF f = k THEN v ELSE o[f]]

\* lines 71-81
Corrupt(o, selected_mode) ==
    IF selected_mode = "missing_unit_price"
      THEN Pop(o, "unit_price")
    ELSE IF selected_mode = "missing_quantity"
      THEN Pop(o, "quantity")
    ELSE IF selected_mode = "missing_both"
      THEN Pop(Pop(o, "unit_price"), "quantity")
    ELSE IF selected_mode = "non_positive_unit_price"
      THEN Put(o, "unit_price", 0)
    ELSE IF selected_mode = "non_positive_quantity"
      THEN Put(o, "quantity", 0)
    ELSE o

\* the record tagged with the argument instead of the mode applied
CreateInvalidOrderTagsArgument(o, mode, choice) ==
    LET selected_mode == IF mode = "random" THEN choice ELSE mode
    IN  Put(Corrupt(o, selected_mode), "invalid_mode", mode)

\* lines 67-84; o is what create_order() returned and choice what
\* random.choice(INVALID_MODES) returns when it is called
CreateInvalidOrder(o, mode, choice) ==
    LET selected_mode == IF mode = "random" THEN choice ELSE mode
    IN  Put(Corrupt(o, selected_mode), "invalid_mode", selected_mode)

\* one call of create_invalid_order(f_mode)
CallCreateInvalidOrder ==
    /\ f_pc = "idle"
    /\ \E choice \in IF f_mode = "random" THEN INVALID_MODES ELSE {"none"} :
         /\ f_choice' = choice
         /\ f_result' = CreateInvalidOrder(f_order, f_mode, choice)
    /\ f_pc' = "returned"
    /\ UNCHANGED <<now, cvars, pvars, evars, f_mode, f_order>>

\* the process is suspended, or the machine is, for several ticks at once
Stall ==
    /\ Running
    /\ delay = 0
    /\ \E d \in 2..MaxStall :
         /\ delay' = delay + d
         /\ now' = Later(d)
    /\ UNCHANGED <<args, capacity, supply, p_pc, outcome, client, handlers,
                   calls, should_stop, metrics, start, last_report,
                   next_send_time, produced, p_order, payload, produce_start,
                   sleep_for, created, accepted, queue, exit_reason,
                   loop_exit_time, reports, flushed, summary>>
    /\ UNCHANGED <<cvars, evars, fvars>>

\* ---------------------------------------------------- the specifications
\* the process that is not running
ProducerOff ==
    /\ p_pc = "off"
    /\ ProducerFields
    /\ capacity = BufferCapacity
    /\ supply = MaxCreated
    /\ horizon = 0
    /\ args = [program |-> "producer", events_per_second |-> 10,
               max_events |-> 0, duration_seconds |-> 0,
               report_every_seconds |-> 5]

ConsumerOff ==
    /\ c_pc = "off"
    /\ ConsumerFields
    /\ backlog = 0
    /\ c_horizon = 0
    /\ c_args = [commit_every |-> 100, report_every_seconds |-> 5]

\* the factory is not called on its own
FactoryOff ==
    /\ f_pc = "off"
    /\ f_mode = "random"
    /\ f_order = None
    /\ f_choice = "none"
    /\ f_result = None

\* The consumer alone; the clock advances only in the polls that time out.
InitC ==
    /\ now = 0
    /\ InitConsumer
    /\ c_args \in ConsumerArgs
    /\ backlog = MaxRecords
    /\ c_horizon = MaxTime
    /\ ProducerOff
    /\ FactoryOff

NextC ==
    \/ PollNone
    \/ PollError
    \/ PollRecord
    \/ Dispatch
    \/ Decode
    \/ Count
    \/ PeriodicCommit
    \/ ConsumerReport
    \/ Interrupt
    \/ Terminate
    \/ FinalCommit
    \/ Close
    \/ ConsumerSummary

SpecC == InitC /\ [][NextC]_vars

\* A producer alone, of either program.
InitP ==
    /\ now = 0
    /\ InitProducer
    /\ args \in ProducerArgs
    /\ capacity = BufferCapacity
    /\ supply = MaxCreated
    /\ horizon = 0
    /\ ConsumerOff
    /\ FactoryOff

NextP ==
    \/ Startup
    \/ StopSignal
    \/ LoopCheck
    \/ CreateEvent
    \/ ProduceAccepted
    \/ ProduceBufferFull
    \/ PollCallbacks
    \/ Pace
    \/ Sleep
    \/ ResetDeadline
    \/ ReportCheck
    \/ ReportEmit
    \/ Flush
    \/ Summary
    \/ Deliver
    \/ Tick

SpecP == InitP /\ [][NextP]_vars

\* The same producer, suspended once for longer than a pacing interval.
NextDrift == NextP \/ Stall

SpecDrift == InitP /\ [][NextDrift]_vars

\* Either program on its own: a producer as above, or a consumer of a few
\* records followed for a second longer, through two empty polls.
InitReports ==
    \/ InitP
    \/ /\ now = 0
       /\ InitConsumer
       /\ c_args \in [commit_every : {0, 1}, report_every_seconds : {0, 1}]
       /\ backlog = MaxReported
       /\ c_horizon = MaxTime + TicksPerSecond
       /\ ProducerOff
       /\ FactoryOff

NextReports == NextC \/ NextP

SpecReports == InitReports /\ [][NextReports]_vars

\* The same producer with room for one more message in the local queue, so
\* that deliveries settle in an order other than the order of submission.
InitQ ==
    /\ now = 0
    /\ InitProducer
    /\ args \in ProducerArgs
    /\ capacity = BufferCapacity + 1
    /\ supply = MaxCreated
    /\ horizon = 0
    /\ ConsumerOff
    /\ FactoryOff

SpecQ == InitQ /\ [][NextP]_vars

\* the steps of the producer's main thread
MainStep ==
    \/ Startup
    \/ LoopCheck
    \/ CreateEvent
    \/ ProduceAccepted
    \/ ProduceBufferFull
    \/ PollCallbacks
    \/ Pace
    \/ Sleep
    \/ ResetDeadline
    \/ ReportCheck
    \/ ReportEmit
    \/ Flush
    \/ Summary

\* The main thread is always scheduled again: every call it makes (sleep,
\* poll(0.1), flush(10)) returns within its timeout.
LiveP == SpecP /\ WF_vars(MainStep)

\* The stalled run: the broker settles nothing, so the local queue fills
\* and every later produce is rejected.  The clock is followed to the
\* horizon, a tick past the longest duration limit tried, and the events
\* created past the supply are not told apart, so that a loop that retries
\* for ever is a cycle of states.
InitStall ==
    /\ now = 0
    /\ InitProducer
    /\ args \in [program : {"producer", "producer_invalid"},
                 events_per_second : {1, 10},
                 max_events : 0..MaxEvents,
                 duration_seconds : {0, 1},
                 report_every_seconds : {0, 1}]
    /\ capacity = BufferCapacity
    /\ supply = MaxCreated
    /\ horizon = MaxTime
    /\ ConsumerOff
    /\ FactoryOff

NextStall == MainStep \/ Tick

SpecStall == InitStall /\ [][NextStall]_vars

LiveStall == SpecStall /\ WF_vars(MainStep)

\* The paced run: a count limit and no other, a local queue that never
\* fills, no work time between the clock reads, every delivery succeeds.
PacedRates == {1, 2, 5, 10}

InitPace ==
    /\ now = 0
    /\ InitProducer
    /\ args \in [program : {"producer"},
                 events_per_second : PacedRates,
                 max_events : 1..MaxPacedEvents,
                 duration_seconds : {0},
                 report_every_seconds : {1}]
    /\ capacity = MaxPacedEvents + 1
    /\ supply = MaxPacedEvents
    /\ horizon = 0
    /\ ConsumerOff
    /\ FactoryOff

NextPace ==
    \/ Startup
    \/ LoopCheck
    \/ CreateEvent
    \/ ProduceAccepted
    \/ PollCallbacks
    \/ Pace
    \/ Sleep
    \/ ReportCheck
    \/ ReportEmit
    \/ Flush
    \/ Summary
    \/ DeliverNext

SpecPace == InitPace /\ [][NextPace]_vars

\* The factory alone, called once on each valid order with each mode.
InitInvalid ==
    /\ now = 0
    /\ ConsumerOff
    /\ ProducerOff
    /\ f_pc = "idle"
    /\ f_mode \in ModeChoices
    /\ f_order \in ValidOrders
    /\ f_choice = "none"
    /\ f_result = None

NextInvalid == CallCreateInvalidOrder

SpecInvalid == InitInvalid /\ [][NextInvalid]_vars

\* ---------------------------------------------------------------------
\* Properties of the consumer
\* ---------------------------------------------------------------------
Stopped == c_pc \in {"done", "crashed", "killed"}

\* The run ended through the interrupt: the finally block ran to its end.
StoppedBySignal == c_pc = "done" /\ sigint

Commits == periodic_commits + final_commits

\* C1: every record whose offset a successful commit covers has finished
\* processing: it was counted in processed (or, undecodable, in errors).
C1_CommitAfterProcessing ==
    \A o \in 1..committed : o \in counted \cup rejected

\* C2: a run with commit_every > 0 that the stop signal ended has issued
\* floor(processed / commit_every) + 1 synchronous commit calls.
C2_CommitCount ==
    (StoppedBySignal /\ c_args.commit_every > 0)
        => Commits = (processed \div c_args.commit_every) + 1

\* The scenario of C3: commit_every = 3, seven valid records counted and
\* nothing else consumed, then the stop signal.
SevenThenStop ==
    /\ StoppedBySignal
    /\ c_args.commit_every = 3
    /\ Cardinality(counted) = 7
    /\ position = 7

\* C3 as claimed: 3 periodic commits plus 1 final commit, 4 in total, and
\* processed = 7.
C3_FourCommits ==
    SevenThenStop
        => periodic_commits = 3 /\ final_commits = 1 /\ Commits = 4
           /\ processed = 7

\* C3 as amended: 2 periodic commits (after records 3 and 6) plus 1 final
\* commit, 3 in total, and processed = 7.
C3_ThreeCommits ==
    SevenThenStop
        => periodic_commits = 2 /\ final_commits = 1 /\ Commits = 3
           /\ processed = 7

C3_Witness == SevenThenStop /\ committed = 7

\* C6: a consumer that received a termination signal and has stopped has
\* issued the final commit, closed the subscription and printed the summary
\* (in that order).
C6_CooperativeStop ==
    /\ (Stopped /\ (sigint \/ sigterm))
           => final_commits = 1 /\ closed /\ c_summary
    /\ c_summary => closed
    /\ closed => final_commits = 1

\* C8: the consumer never ends with an exception of a commit, a decode or a
\* poll error propagating out of main.
C8_NoErrorExit == c_pc = "crashed" => raised # "KafkaException"

\* ---------------------------------------------------------------------
\* Properties of the producer
\* ---------------------------------------------------------------------
LoopEnded == p_pc \in {"flush", "summary", "done"}

\* the event of the iteration in progress, not yet accepted
Pending(e) ==
    /\ p_pc \in {"produce", "loop"}
    /\ p_order # None
    /\ p_order.order_id = e

\* C4: every event the factory has created is accepted by the client or is
\* the event waiting to be retried; none is dropped for a fresh one.
C4_NoEventDropped ==
    \A e \in 1..created : e \in accepted \/ Pending(e)

\* a run limited by --max-events alone that no signal stopped
CountLimited ==
    /\ args.max_events > 0
    /\ args.duration_seconds = 0
    /\ ~should_stop

\* C5: with max_events = N > 0 the loop never accepts more than N sends; a
\* run limited by N alone leaves the loop with exactly N accepted, each
\* accepted send is counted at most once, and once every callback has run
\* without a failure sent_ok = N and sent_error = 0.
C5_ExactlyN ==
    /\ args.max_events > 0 => produced <= args.max_events
    /\ produced = Cardinality(accepted)
    /\ metrics.sent_ok + metrics.sent_error + Cardinality(queue) = produced
    /\ (CountLimited /\ LoopEnded) => produced = args.max_events
    /\ (CountLimited /\ LoopEnded /\ queue = {} /\ metrics.sent_error = 0)
          => metrics.sent_ok = args.max_events

\* a run of MaxEvents sends with a buffer-full rejection on the way, all
\* acknowledged
C5_Witness ==
    /\ CountLimited
    /\ p_pc = "done"
    /\ args.max_events = MaxEvents
    /\ created > produced
    /\ queue = {}
    /\ metrics.sent_ok = MaxEvents

\* C7: once the loop has observed the stop flag nothing more is created or
\* produced; a flag found set at the top of the loop starts no iteration;
\* the summary comes after the flush; and a stop signal leads to the flush
\* and the summary.
C7_StopLeadsToSummary ==
    /\ [][exit_reason = "stop"
            => (created' = created /\ produced' = produced
                /\ accepted' = accepted)]_vars
    /\ [][(should_stop /\ p_pc = "loop") => p_pc' \in {"loop", "flush"}]_vars
    /\ [](exit_reason = "stop" => LoopEnded)
    /\ [](summary => flushed)
    /\ (should_stop ~> (p_pc = "done" /\ flushed /\ summary))

\* a stop that arrived while an event was being retried
C7_Witness ==
    /\ p_pc = "done"
    /\ exit_reason = "stop"
    /\ created > produced
    /\ produced > 0
    /\ flushed /\ summary

\* C9: a rate <= 0 ends the run in the configuration error before the
\* client exists, before the handlers are installed and before any call of
\* the client; a rate > 0 never does.
C9_ConfigError ==
    /\ outcome = "config_error"
          => /\ args.events_per_second <= 0
             /\ ~client /\ ~handlers
             /\ calls = {} /\ queue = {} /\ created = 0
    /\ (args.events_per_second <= 0 /\ p_pc # "start")
          => outcome = "config_error" /\ p_pc = "exit"
    /\ args.events_per_second > 0 => outcome # "config_error"

C9_Witness ==
    /\ outcome = "config_error"
    /\ args.events_per_second = 0
    /\ args.program = "producer_invalid"

\* the time from the start of the run to the exit of the send loop
LoopTime == loop_exit_time - start

PacedRunEnded == LoopEnded /\ exit_reason = "max_events"

Served == {r \in queue : r.status # "inflight" /\ r \notin queue'}

Keys(q) == {r.key : r \in q}

Counted == metrics.sent_ok + metrics.sent_error

\* C11: the delivery callback runs at most once per accepted send and only
\* for accepted sends.  The callbacks run so far never outnumber the
\* accepted sends; every accepted send is either still in the client's queue
\* or has been counted once, in sent_ok or in sent_error; a step that runs
\* callbacks adds one to sent_ok for each acknowledged send it serves and
\* one to sent_error for each failed one, whatever their order of
\* submission; a send once served never comes back; and the latency total
\* only grows, every queued send having been submitted no later than now.
C11_CallbackOncePerSend ==
    /\ [](Counted <= produced)
    /\ [](Counted + Cardinality(queue) = produced)
    /\ [](Keys(queue) \subseteq accepted
            /\ Cardinality(Keys(queue)) = Cardinality(queue))
    /\ [][/\ metrics'.sent_ok = metrics.sent_ok
                + Cardinality({r \in Served : r.status = "acked"})
          /\ metrics'.sent_error = metrics.sent_error
                + Cardinality({r \in Served : r.status = "failed"})]_vars
    /\ [][\A r \in queue' :
            r.key \in Keys(queue) \/ r.key \notin accepted]_vars
    /\ [][metrics'.ack_latency_total_ms >= metrics.ack_latency_total_ms]_vars
    /\ [](\A r \in queue : r.started_at <= now)

\* the second send was acknowledged and counted, with a latency, while the
\* first is still in flight
C11_Witness ==
    /\ produced = 2
    /\ metrics.sent_ok = 1
    /\ metrics.ack_latency_total_ms > 0
    /\ \E r \in queue : r.key = 1 /\ r.status = "inflight"
    /\ 2 \notin Keys(queue)

\* the round trips, in ms, of the acknowledged sends of S reported at t
RECURSIVE RoundTrips(_, _)
RoundTrips(S, t) ==
    IF S = {}
      THEN 0
      ELSE LET r == CHOOSE x \in S : TRUE
           IN  (IF r.status = "acked" THEN (t - r.started_at) * MsPerTick
                                      ELSE 0)
               + RoundTrips(S \ {r}, t)

\* the steps of the main thread that call neither poll nor flush
NoCallbackStep ==
    \/ p_pc \in {"start", "loop", "create", "pace", "sleep", "reset",
                 "report", "emit", "summary"}
    \/ p_pc = "produce" /\ p_pc' = "poll"

\* C12: sent_ok and sent_error never decrease and, with
\* ack_latency_total_ms, change only in a step that runs delivery callbacks
\* (a poll or the flush with reports ready).  The accepted send, the pacing
\* step, the sleep, the periodic report and the summary leave the three
\* unchanged, and so does a backpressure poll that has no report to serve.
\* A step that serves only failed deliveries changes sent_error alone, and
\* the latency total grows by the round trips of the acknowledged sends.
C12_OnlyTheCallback ==
    /\ [][/\ metrics'.sent_ok >= metrics.sent_ok
          /\ metrics'.sent_error >= metrics.sent_error]_vars
    /\ [][metrics' # metrics
            => Served # {} /\ p_pc \in {"produce", "poll", "flush"}]_vars
    /\ [][NoCallbackStep => metrics' = metrics]_vars
    /\ [][(p_pc = "produce" /\ p_pc' = "loop" /\ Ready(queue) = {})
            => metrics' = metrics]_vars
    /\ [][(\A r \in Served : r.status = "failed")
            => /\ metrics'.sent_ok = metrics.sent_ok
               /\ metrics'.ack_latency_total_ms
                    = metrics.ack_latency_total_ms]_vars
    /\ [][metrics'.ack_latency_total_ms
            = metrics.ack_latency_total_ms + RoundTrips(Served, now)]_vars

\* a run of two sends, the first failed and the second acknowledged after a
\* tick, with a report printed and the summary printed
C12_Witness ==
    /\ p_pc = "done"
    /\ reports > 0
    /\ metrics.sent_error = 1
    /\ metrics.sent_ok = 1
    /\ metrics.ack_latency_total_ms = MsPerTick

\* the step of lines 63-66 on the record just decoded
Counting == c_pc = "count" /\ processed' # processed

\* the record carries an integer event_time_ms: a JSON number without
\* fraction, not a string, not a boolean, not absent
WellTyped(o) == o.kind = "int_ts"

\* C13: processing a decoded record adds exactly 1 to processed and leaves
\* errors unchanged; when the record has no integer event_time_ms (absent,
\* a string, a boolean, or the record is no object) latency_total_ms stays
\* as it is, and when it has one latency_total_ms grows by the receive time
\* in ms minus event_time_ms.
C13_LatencyOnlyForIntegers ==
    [][Counting
         => /\ processed' = processed + 1
            /\ errors' = errors
            /\ latency_total_ms' =
                 IF WellTyped(order)
                   THEN latency_total_ms
                          + (now * MsPerTick - order.event_time_ms)
                   ELSE latency_total_ms]_vars

\* a step that ends an iteration of the consumer loop and starts the next
IterationEnds == InLoop /\ c_pc # "poll" /\ c_pc' = "poll"

ConsumerReportDue ==
    now - c_last_report >= c_args.report_every_seconds * TicksPerSecond

\* C14: an iteration of the consumer loop that ends when
\* report_every_seconds have passed since the last report has printed a
\* snapshot, whatever the iteration did (empty poll, poll error, decode
\* failure, processed record).
C14_ReportEveryIteration ==
    [][(IterationEnds /\ ConsumerReportDue)
         => c_reports' = c_reports + 1]_vars

\* the mode the call had to apply
Applied == IF f_mode = "random" THEN f_choice ELSE f_mode

Has(o, k) == k \in DOMAIN o

\* o carries field k with the value the valid order had
Kept(o, k) == Has(o, k) /\ o[k] = f_order[k]

\* C15: the record create_invalid_order returns is the valid order with
\* invalid_mode added and nothing changed outside quantity and unit_price;
\* invalid_mode is the mode asked for, or with "random" the one of the five
\* that was drawn; and the record is changed as that mode documents:
\* missing_unit_price lacks only unit_price, missing_quantity lacks only
\* quantity, missing_both lacks both, non_positive_unit_price keeps both
\* with unit_price <= 0, non_positive_quantity keeps both with
\* quantity <= 0.
C15_DocumentedCorruption ==
    f_pc = "returned" =>
      LET r == f_result
          m == r["invalid_mode"]
      IN  /\ Has(r, "invalid_mode")
          /\ m \in INVALID_MODES
          /\ m = Applied
          /\ DOMAIN r \subseteq DOMAIN f_order \cup {"invalid_mode"}
          /\ \A k \in DOMAIN f_order \ {"quantity", "unit_price"} : Kept(r, k)
          /\ m = "missing_unit_price"
                => ~Has(r, "unit_price") /\ Kept(r, "quantity")
          /\ m = "missing_quantity"
                => ~Has(r, "quantity") /\ Kept(r, "unit_price")
          /\ m = "missing_both"
                => ~Has(r, "unit_price") /\ ~Has(r, "quantity")
          /\ m = "non_positive_unit_price"
                => /\ Has(r, "unit_price") /\ r["unit_price"] <= 0
                   /\ Kept(r, "quantity")
          /\ m = "non_positive_quantity"
                => /\ Has(r, "quantity") /\ r["quantity"] <= 0
                   /\ Kept(r, "unit_price")

\* called with "random", the draw was missing_both
C15_Witness ==
    /\ f_pc = "returned"
    /\ f_mode = "random"
    /\ f_result["invalid_mode"] = "missing_both"
    /\ ~Has(f_result, "unit_price")
    /\ ~Has(f_result, "quantity")
    /\ f_result["total_amount"] = f_order["total_amount"]

\* a step of the consumer's main thread, not the arrival of a signal
ConsumerStep == c_pc' # c_pc /\ sigint' = sigint /\ sigterm' = sigterm

NoCommit ==
    /\ periodic_commits' = periodic_commits
    /\ final_commits' = final_commits
    /\ committed' = committed

\* C16: a poll result that carries a broker error, and a record whose bytes
\* do not decode, each add exactly 1 to errors, leave processed and
\* latency_total_ms unchanged and send the loop back to the poll; an empty
\* poll changes no counter and goes back to the poll; no step between the
\* poll and the end of the decoding changes a counter otherwise or commits,
\* and errors changes in no other step.
C16_ErrorsCountedLoopContinues ==
    /\ [][(ConsumerStep /\ c_pc = "dispatch" /\ msg.type = "error")
            => /\ errors' = errors + 1
               /\ processed' = processed
               /\ latency_total_ms' = latency_total_ms
               /\ c_pc' = "poll"]_vars
    /\ [][(ConsumerStep /\ c_pc = "decode" /\ msg.kind = "undecodable")
            => /\ errors' = errors + 1
               /\ processed' = processed
               /\ latency_total_ms' = latency_total_ms
               /\ c_pc' = "poll"]_vars
    /\ [][(ConsumerStep /\ c_pc = "dispatch" /\ msg.type = "none")
            => /\ errors' = errors
               /\ processed' = processed
               /\ latency_total_ms' = latency_total_ms
               /\ c_pc' = "poll"]_vars
    /\ [][(c_pc \in {"poll", "dispatch", "decode"})
            => (NoCommit /\ processed' = processed
                /\ latency_total_ms' = latency_total_ms)]_vars
    /\ [][errors' # errors
            => \/ c_pc = "dispatch" /\ msg.type = "error"
               \/ c_pc = "decode" /\ msg.kind = "undecodable"]_vars

\* a broker error, an undecodable record and an empty poll, all counted as
\* they should be, and the loop is polling again with a record processed
\* after them
C16_Witness ==
    /\ c_pc = "poll"
    /\ errors = 2
    /\ poll_errors = 1
    /\ rejected = {1}
    /\ counted = {2}
    /\ processed = 1
    /\ now = ConsumerPollTimeout
    /\ Commits = 0

\* a retry: produce was rejected and the loop is back at its top
Retry == p_pc = "produce" /\ p_pc' = "loop"

LimitConfigured == args.max_events > 0 \/ args.duration_seconds > 0

\* C17 as claimed: with a positive duration limit or a positive event-count
\* limit configured the producer loop ends however long the buffer-full
\* rejections persist, and a retry blocks for no longer than the
\* backpressure poll.
C17_AnyLimitEndsRetries ==
    /\ LimitConfigured => <>LoopEnded
    /\ [][Retry => now' - now <= PollBackoff]_vars

\* C17 as amended: with a positive duration limit configured the producer
\* loop ends however long the buffer-full rejections persist, and a retry
\* blocks for no longer than the backpressure poll.
C17_DurationEndsRetries ==
    /\ args.duration_seconds > 0 => <>LoopEnded
    /\ [][Retry => now' - now <= PollBackoff]_vars

\* a run whose every produce after the first was rejected, ended by the
\* duration limit with the count limit never reached
C17_Witness ==
    /\ p_pc = "done"
    /\ exit_reason = "duration"
    /\ args.max_events = MaxEvents
    /\ produced = capacity
    /\ produced < args.max_events
    /\ created > produced + 1
    /\ Cardinality(queue) = capacity

\* C18: a produce that is rejected leaves produced and the next deadline
\* unchanged and goes back to the top of the loop without the pacing step,
\* blocking for the backpressure poll at most; produced changes only when
\* the client accepts the record, by exactly 1, the record being a new one
\* in the set of accepted sends; the pacing step is entered only after an
\* accepted send and advances the deadline by exactly 1/r, the deadline
\* changing nowhere else but in the reset to the clock; and produced equals
\* the number of accepted sends.
C18_OnlyAcceptedSendsCount ==
    /\ [][Retry
            => /\ produced' = produced
               /\ next_send_time' = next_send_time
               /\ sleep_for' = sleep_for
               /\ now' - now <= PollBackoff]_vars
    /\ [][produced' # produced
            => /\ produced' = produced + 1
               /\ p_pc = "produce" /\ p_pc' = "poll"
               /\ p_order.order_id \notin accepted
               /\ accepted' = accepted \cup {p_order.order_id}
               /\ Cardinality(queue') = Cardinality(queue) + 1]_vars
    /\ [][(p_pc' = "poll" /\ p_pc # "poll")
            => produced' = produced + 1]_vars
    /\ [][(p_pc' = "pace" /\ p_pc # "pace") => p_pc = "poll"]_vars
    /\ [][(p_pc = "pace" /\ p_pc' # "pace")
            => next_send_time' = next_send_time + Interval]_vars
    /\ [][next_send_time' # next_send_time
            => \/ p_pc = "pace"
               \/ p_pc = "reset" /\ next_send_time' = now]_vars
    /\ [](produced = Cardinality(accepted))

\* the second event has just been rejected, after a tick of work: one send
\* counted, the deadline one interval after the start
C18_Witness ==
    /\ p_pc = "loop"
    /\ created = 2
    /\ p_order.order_id = 2
    /\ accepted = {1}
    /\ produced = 1
    /\ next_send_time = start + Interval
    /\ now > next_send_time

\* the pacing step, lines 168-173, from its first line to its last
PaceBegins == p_pc = "pace" /\ p_pc' # "pace"

PaceEnds == p_pc \in {"sleep", "reset"} /\ p_pc' = "report"

\* the clock value the step has read: before the sleep the one of line 169,
\* in the reset the one of line 173
ClockRead == IF p_pc = "sleep" THEN next_send_time - sleep_for ELSE now

\* C19: when the pacing step begins the deadline is not ahead of the clock,
\* so the advanced deadline is at most 1/r past the clock read; the step
\* sleeps only when the advanced deadline is still ahead, for the
\* difference, which is never more than 1/r; when the advanced deadline has
\* passed it is reset to the clock; at the end of the step the deadline is
\* not earlier than the clock value the step read and not later than that
\* value plus 1/r, and not ahead of the clock, so the lag of a stall is
\* dropped and not carried into the following sends.
C19_NoCatchUp ==
    /\ [](p_pc = "pace" => next_send_time <= now)
    /\ [][PaceBegins
            => /\ next_send_time' <= now + Interval
               /\ sleep_for' = next_send_time' - now
               /\ (p_pc' = "sleep") = (next_send_time' > now)
               /\ (p_pc' = "reset") = (next_send_time' <= now)]_vars
    /\ [](p_pc = "sleep" => (0 < sleep_for /\ sleep_for <= Interval))
    /\ [][(p_pc = "reset" /\ p_pc' # "reset") => next_send_time' = now]_vars
    /\ [][PaceEnds
            => /\ next_send_time' >= ClockRead
               /\ next_send_time' <= ClockRead + Interval
               /\ next_send_time' <= now']_vars

\* r = 10: the process was suspended for MaxStall intervals after the first
\* send, the deadline was reset, and the second send is followed by a sleep
\* of a whole interval
C19_Witness ==
    /\ args.events_per_second = 10
    /\ delay = MaxStall
    /\ now = start + MaxStall
    /\ produced = 2
    /\ p_pc = "sleep"
    /\ sleep_for = Interval
    /\ next_send_time = now + Interval

\* C20: in the producers and in the consumer a snapshot is printed only
\* when report_every_seconds have passed since last_report; last_report is
\* the time of the previous snapshot (of the start, before the first one):
\* it changes only in the step that prints a snapshot, which sets it to the
\* clock of that moment.  Two consecutive snapshots are therefore at least
\* report_every_seconds apart, one snapshot at a time.
C20_ReportsSpaced ==
    /\ [][reports' # reports
            => /\ reports' = reports + 1
               /\ now - last_report
                    >= args.report_every_seconds * TicksPerSecond
               /\ last_report' = now']_vars
    /\ [][last_report' # last_report => reports' = reports + 1]_vars
    /\ [][c_reports' # c_reports
            => /\ c_reports' = c_reports + 1
               /\ now - c_last_report
                    >= c_args.report_every_seconds * TicksPerSecond
               /\ c_last_report' = now']_vars
    /\ [][c_last_report' # c_last_report => c_reports' = c_reports + 1]_vars

\* a producer with report_every_seconds = 1 has printed its second
\* snapshot, a tick late: more than two seconds after the start
C20_Witness ==
    /\ args.report_every_seconds = 1
    /\ reports = 2
    /\ p_pc = "loop"
    /\ last_report = now
    /\ last_report - start > 2 * TicksPerSecond

\* the final commit raises in this step
FinalCommitFails ==
    final_commit_error = "none" /\ final_commit_error' # "none"

\* C21: a final commit that raises changes no counter and no committed
\* offset, raises nothing out of the finally block and is followed by the
\* close; after it, unless a signal or an exception of the loop ends the
\* process, the run is closing, printing the summary or done, never in an
\* error outcome, the subscription closed before the summary and the
\* summary printed before the end.
C21_FinalCommitFailureSwallowed ==
    /\ [][FinalCommitFails
            => /\ processed' = processed
               /\ errors' = errors
               /\ latency_total_ms' = latency_total_ms
               /\ committed' = committed
               /\ raised' = raised
               /\ c_pc' = "close"]_vars
    /\ []((final_commit_error # "none" /\ raised = "none" /\ ~sigterm)
            => /\ c_pc \in {"close", "summary", "done"}
               /\ c_pc \in {"summary", "done"} => closed
               /\ c_pc = "done" => c_summary)

\* the stop signal found records processed and not committed, the final
\* commit raised, and the run ended with the subscription closed and the
\* summary printed
C21_Witness ==
    /\ c_pc = "done"
    /\ sigint
    /\ final_commit_error = "KafkaException"
    /\ final_commits = 1
    /\ processed > 0
    /\ committed < position
    /\ closed /\ c_summary

====
